---- MODULE Spec2Model ----
(***************************************************************************)
(* Stock risk prediction service: the Flask server of                      *)
(* ml-risk-prediction/api.py (artifact load at import, /health, /predict,  *)
(* /predict/batch) and the derived-feature step of the offline trainer of  *)
(* ml-risk-prediction/train_model.py.                                      *)
(*                                                                         *)
(* Numbers.  A JSON number is modelled as a finite integer; a derived      *)
(* feature is an exact fraction [n, d] (d > 0).  A regressor output and a  *)
(* risk score are fixed-point integers counting thousandths (one digit     *)
(* more than the two the response is rounded to), so that clamping,        *)
(* bucketing and rounding are three different operations.                  *)
(***************************************************************************)
EXTENDS Integers, Sequences, FiniteSets, TLC

\* ---------------------------------------------------------------- bounds
\* Largest |day_change_percent| a request of the server model carries.
MaxDcp == 4
\* Largest |field value| of a snapshot of the single-prediction model.
MaxNum == 2
\* Longest `stocks` list of a batch request.
MaxBatch == 2
\* Trainer model: rows of the synthetic table, largest volume drawn.
MaxRows == 2
MaxVol == 2

\* ------------------------------------------------------ program constants
LowBelow == 30
MediumBelow == 60
ScoreMin == 0
ScoreMax == 100
RoundDigits == 2
VolumeRatioDefault == 1
FloorValue == 1
HttpOk == 200
HttpBadRequest == 400
HttpServerError == 500

\* One risk-score point in the fixed-point unit (thousandths), and one step
\* of the rounded response (a hundredth) in that unit.
Scale == 10 ^ (RoundDigits + 1)
Step == Scale \div (10 ^ RoundDigits)

\* ------------------------------------------------------------ JSON values
\* A snapshot field as the client sent it: absent key, null, a non-numeric
\* value (a string), or a number.
Absent == [k |-> "absent", v |-> 0]
Null == [k |-> "null", v |-> 0]
Str == [k |-> "str", v |-> 0]
Num(x) == [k |-> "num", v |-> x]
IsNum(x) == x.k = "num"

\* Exact fractions.
Rat(x) == [n |-> x, d |-> 1]
Frac(a, b) == [n |-> a, d |-> b]
RatEq(p, q) == p.n * q.d = q.n * p.d
Abs(x) == IF x < 0 THEN -x ELSE x
Min2(a, b) == IF a < b THEN a ELSE b
Max2(a, b) == IF a > b THEN a ELSE b

\* Mutant of DictGet: the default is dropped, as in dict.get(key).
DictGetNoDefault(x, default) == x

\* dict.get(key, default): the stored value when the key is present (null
\* included), the default otherwise.
DictGet(x, default) == IF x.k = "absent" THEN default ELSE x

\* calculate_features did not run / raised before returning (TypeError on a
\* null or non-numeric field, AttributeError on a value without .get).
NotCalled == [called |-> FALSE, raised |-> FALSE, features |-> <<>>]
NoFeatures == [called |-> TRUE, raised |-> TRUE, features |-> <<>>]

\* Mutant of FloorToOne: `>=` for `>`, so a zero passes through.
FloorNegativeOnly(x) == IF x >= 0 THEN x ELSE FloorValue

\* value if value > 0 else 1
FloorToOne(x) == IF x > 0 THEN x ELSE FloorValue

\* Mutant of PriceChangeRatio: a sign slip in the numerator.
PriceChangeRatioSum(current_price, previous_close) ==
    IF previous_close > 0
    THEN Frac(Abs(current_price + previous_close), previous_close)
    ELSE Rat(0)

\* The price-change branch of calculate_features.
PriceChangeRatio(current_price, previous_close) ==
    IF previous_close > 0
    THEN Frac(Abs(current_price - previous_close), previous_close)
    ELSE Rat(0)

\* calculate_features(stock_data): the seven derived features, or the
\* TypeError that `>` and abs() raise on None and on a string.
calculate_features(stock_data) ==
    LET day_change_percent == DictGet(stock_data.day_change_percent, Num(0))
        volume == DictGet(stock_data.volume, Num(0))
        market_cap == DictGet(stock_data.market_cap, Num(0))
        current_price == DictGet(stock_data.current_price, Num(0))
        previous_close == DictGet(stock_data.previous_close, current_price)
    IN  IF ~IsNum(volume) \/ ~IsNum(market_cap) \/ ~IsNum(current_price)
           \/ ~IsNum(day_change_percent) \/ ~IsNum(previous_close)
        THEN NoFeatures
        ELSE [called |-> TRUE, raised |-> FALSE,
              features |->
                [day_change_percent |-> Rat(day_change_percent.v),
                 volume |-> Rat(FloorToOne(volume.v)),
                 market_cap |-> Rat(FloorToOne(market_cap.v)),
                 current_price |-> Rat(FloorToOne(current_price.v)),
                 price_volatility |-> Rat(Abs(day_change_percent.v)),
                 volume_ratio |-> Rat(VolumeRatioDefault),
                 price_change_ratio |->
                     PriceChangeRatio(current_price.v, previous_close.v)]]

\* ---------------------------------------------------------------- scoring
\* The list train_risk_model writes to models/feature_names.json.
feature_columns ==
    <<"day_change_percent", "volume", "market_cap", "current_price",
      "price_volatility", "volume_ratio", "price_change_ratio">>

NoModel == [loaded |-> FALSE, bias |-> 0, slope |-> 0]
NoScaler == [loaded |-> FALSE, n_features_in |-> 0]

\* [features.get(name, 0) for name in feature_names]
FeatureVector(features, names) ==
    [i \in 1..Len(names) |->
        IF names[i] \in DOMAIN features THEN features[names[i]] ELSE Rat(0)]

\* scaler.transform: refuses a row whose width is not the fitted width; the
\* per-column affine map is absorbed into the regressor's parameters.
ScalerTransform(sc, row) ==
    IF Len(row) # sc.n_features_in
    THEN [raised |-> TRUE, row |-> <<>>]
    ELSE [raised |-> FALSE, row |-> row]

\* model.predict(row)[0]: the fitted forest is an opaque function fixed at
\* load time; it is modelled as affine in the first column, in thousandths.
ModelPredict(m, row) == m.bias + m.slope * row[1].n

\* Mutant of Clamp: the lower bound is forgotten.
ClampUpperOnly(x) == Min2(ScoreMax * Scale, x)

\* max(0, min(100, risk_score))
Clamp(x) == Max2(ScoreMin * Scale, Min2(ScoreMax * Scale, x))

\* The if / elif / else ladder.
RiskLevel(x) ==
    IF x < LowBelow * Scale THEN "Low"
    ELSE IF x < MediumBelow * Scale THEN "Medium"
    ELSE "High"

\* round(float(x), 2): to the nearest hundredth, a tie to the even one.
Round2(x) ==
    LET q == x \div Step
        r == x % Step
    IN  IF 2 * r < Step THEN q * Step
        ELSE IF 2 * r > Step THEN (q + 1) * Step
        ELSE IF q % 2 = 0 THEN q * Step ELSE (q + 1) * Step

\* Lines 99-120 of predict and 169-181 of predict_batch: features, vector,
\* transform, predict, clamp, level; the score is rounded when the response
\* is built.
Score(m, sc, names, stock_data) ==
    LET cf == calculate_features(stock_data)
        tr == ScalerTransform(sc, FeatureVector(cf.features, names))
        clamped == Clamp(ModelPredict(m, tr.row))
    IN  IF cf.raised \/ tr.raised
        THEN [raised |-> TRUE, risk_score |-> 0, risk_level |-> "none",
              raw |-> 0, cf |-> cf]
        ELSE [raised |-> FALSE, risk_score |-> Round2(clamped),
              risk_level |-> RiskLevel(clamped),
              raw |-> ModelPredict(m, tr.row), cf |-> cf]

\* ------------------------------------------------------------------ state
VARIABLES
    disk,           \* the artifact directory as the import found it
    model,          \* module global `model`
    scaler,         \* module global `scaler`
    feature_names,  \* module global `feature_names`
    startup,        \* history: the three globals as the import left them
    resp,           \* the last /health or /predict exchange completed
    batch,          \* the /predict/batch exchange in progress or completed
    df              \* trainer: the synthetic table

vars == <<disk, model, scaler, feature_names, startup, resp, batch, df>>

\* The regressors a training run may have left on disk: one per score
\* boundary, so that requests land just below, on and just above each, and
\* a steep one whose outputs leave [0, 100] on both sides.
Regressors ==
    {[loaded |-> TRUE, bias |-> b * Scale, slope |-> 1] :
        b \in {ScoreMin, LowBelow, MediumBelow, ScoreMax}}
    \cup {[loaded |-> TRUE, bias |-> LowBelow * Scale,
            slope |-> ScoreMax * Scale]}

FileStates == {"ok", "fail"}
Disks == [model : FileStates, scaler : FileStates, feature_names : FileStates]

\* Mutant of LoadArtifacts: the except clause does not reset the globals,
\* so whatever loaded before the failing file stays.
LoadArtifactsPartial(d, fitted) ==
    [model |-> IF d.model = "ok" THEN fitted ELSE NoModel,
     scaler |-> IF d.model = "ok" /\ d.scaler = "ok"
                THEN [loaded |-> TRUE, n_features_in |-> Len(feature_columns)]
                ELSE NoScaler,
     feature_names |->
         IF d.model = "ok" /\ d.scaler = "ok" /\ d.feature_names = "ok"
         THEN feature_columns ELSE <<>>]

\* The try / except at import: all three globals from the files, or, when
\* any load raises, model = None, scaler = None, feature_names = [].
LoadArtifacts(d, fitted) ==
    IF d.model = "ok" /\ d.scaler = "ok" /\ d.feature_names = "ok"
    THEN [model |-> fitted,
          scaler |-> [loaded |-> TRUE, n_features_in |-> Len(feature_columns)],
          feature_names |-> feature_columns]
    ELSE [model |-> NoModel, scaler |-> NoScaler, feature_names |-> <<>>]

\* ------------------------------------------------------------- requests
NoSymbol == "<absent>"
EmptyObject ==
    [obj |-> TRUE, symbol |-> NoSymbol, day_change_percent |-> Absent,
     volume |-> Absent, market_cap |-> Absent, current_price |-> Absent,
     previous_close |-> Absent]
\* A JSON value that is not an object (a number, null, a list, a string).
NonObject == [EmptyObject EXCEPT !.obj = FALSE]

IsEmptyObject(o) ==
    /\ o.obj /\ o.symbol = NoSymbol
    /\ o.day_change_percent = Absent /\ o.volume = Absent
    /\ o.market_cap = Absent /\ o.current_price = Absent
    /\ o.previous_close = Absent

\* What request.get_json() meets in a POST body.
\*   missing_raises  no usable body and get_json raises (an empty body sent
\*                   as application/json; any non-JSON body on a Flask that
\*                   answers 415)
\*   missing_none    no JSON body and get_json returns None
\*   null, falsy     the JSON text null; a falsy non-object ([], 0, "")
\*   nonobject       a truthy JSON value that is not an object
\*   object          a JSON object
BodyKinds == {"missing_raises", "missing_none", "null", "falsy", "nonobject",
              "object"}
Body(kind, data) == [kind |-> kind, data |-> data]
NoBody == Body("none", NonObject)

\* request.get_json(): raises, or the parsed value.
GetJsonRaises(body) == body.kind = "missing_raises"
\* `not data`
NotData(body) ==
    \/ body.kind \in {"missing_none", "null", "falsy"}
    \/ body.kind = "object" /\ IsEmptyObject(body.data)

NoResp ==
    [endpoint |-> "none", body |-> NoBody, status |-> 0,
     model_loaded |-> FALSE, error |-> "", inferred |-> FALSE,
     risk_score |-> 0, risk_level |-> "none", raw |-> 0,
     cf |-> NotCalled, features_used |-> <<>>]

\* health(): never reads the request.
HealthResponse(m) ==
    [NoResp EXCEPT !.endpoint = "health", !.status = HttpOk,
                   !.model_loaded = m.loaded]

ErrorResponse(body, status, error) ==
    [NoResp EXCEPT !.endpoint = "predict", !.body = body, !.status = status,
                   !.error = error]

\* predict(): the response to one POST /predict.
PredictResponse(m, sc, names, body) ==
    IF ~m.loaded \/ ~sc.loaded
    THEN ErrorResponse(body, HttpServerError, "Model not loaded")
    ELSE IF GetJsonRaises(body)
    THEN ErrorResponse(body, HttpServerError, "Prediction error")
    ELSE IF NotData(body)
    THEN ErrorResponse(body, HttpBadRequest, "No data provided")
    ELSE IF ~body.data.obj
    THEN [ErrorResponse(body, HttpServerError, "Prediction error")
             EXCEPT !.cf = NoFeatures]
    ELSE LET s == Score(m, sc, names, body.data)
         IN  IF s.raised
             THEN [ErrorResponse(body, HttpServerError, "Prediction error")
                      EXCEPT !.inferred = ~s.cf.raised, !.cf = s.cf]
             ELSE [NoResp EXCEPT !.endpoint = "predict", !.body = body,
                                 !.status = HttpOk, !.inferred = TRUE,
                                 !.risk_score = s.risk_score,
                                 !.risk_level = s.risk_level,
                                 !.raw = s.raw, !.cf = s.cf,
                                 !.features_used = s.cf.features]

\* Mutant of GlobalsKept: a handler that rebinds a global on its way out.
GlobalsReset == model' = NoModel /\ UNCHANGED <<scaler, feature_names>>

\* No handler declares a global: the three module globals are only read.
GlobalsKept == UNCHANGED <<model, scaler, feature_names>>

NoBatch ==
    [pc |-> "idle", body |-> [kind |-> "none", stocks |-> <<>>], i |-> 0,
     results |-> <<>>, status |-> 0, count |-> 0, error |-> ""]
NoTable == [pc |-> "idle", rows |-> <<>>]

\* The process after `import api`.
Init ==
    /\ disk \in Disks
    /\ \E fitted \in Regressors :
         /\ model = LoadArtifacts(disk, fitted).model
         /\ scaler = LoadArtifacts(disk, fitted).scaler
         /\ feature_names = LoadArtifacts(disk, fitted).feature_names
    /\ startup = [model |-> model, scaler |-> scaler,
                  feature_names |-> feature_names]
    /\ resp = NoResp
    /\ batch = NoBatch
    /\ df = NoTable

\* GET /health
Health ==
    /\ resp' = HealthResponse(model)
    /\ GlobalsKept
    /\ UNCHANGED <<disk, startup, batch, df>>

\* POST /predict
Predict(body) ==
    /\ resp' = PredictResponse(model, scaler, feature_names, body)
    /\ GlobalsKept
    /\ UNCHANGED <<disk, startup, batch, df>>

\* ---------------------------------------------------------------- batch
\* What the body of a POST /predict/batch holds.
\*   missing_raises, missing_none, null, nonobject   as for /predict
\*   no_stocks       an object without the key `stocks`
\*   stocks_falsy    `stocks` is null, 0 or ""
\*   stocks_nonlist  `stocks` is a truthy value that is not a list
\*   stocks_list     `stocks` is a list (possibly empty)
BatchBody(kind, stocks) == [kind |-> kind, stocks |-> stocks]

\* stock.get('symbol', 'UNKNOWN')
SymbolOf(stock) == IF stock.symbol = NoSymbol THEN "UNKNOWN" ELSE stock.symbol

ScoreEntry(stock, s) ==
    [symbol |-> SymbolOf(stock), scored |-> TRUE, risk_score |-> s.risk_score,
     risk_level |-> s.risk_level, raw |-> s.raw, error |-> ""]
ErrorEntry(stock) ==
    [symbol |-> SymbolOf(stock), scored |-> FALSE, risk_score |-> 0,
     risk_level |-> "none", raw |-> 0, error |-> "str(e)"]

BatchDone(b, status, error) ==
    [b EXCEPT !.pc = "done", !.status = status, !.error = error,
              !.results = <<>>, !.count = 0]

\* predict_batch() up to the loop: the not-loaded check, get_json,
\* data.get('stocks', []), `not stocks`, and iter(stocks).
BatchEnter(m, sc, body) ==
    LET b == [NoBatch EXCEPT !.body = body]
    IN  IF ~m.loaded \/ ~sc.loaded
        THEN BatchDone(b, HttpServerError, "Model not loaded")
        ELSE IF body.kind \in {"missing_raises", "missing_none", "null",
                               "nonobject"}
        THEN BatchDone(b, HttpServerError, "Batch prediction error")
        ELSE IF body.kind \in {"no_stocks", "stocks_falsy"}
                \/ (body.kind = "stocks_list" /\ Len(body.stocks) = 0)
        THEN BatchDone(b, HttpBadRequest, "No stocks provided")
        ELSE IF body.kind = "stocks_nonlist"
        THEN BatchDone(b, HttpServerError, "Batch prediction error")
        ELSE [b EXCEPT !.pc = "loop", !.i = 1]

\* One pass of the loop body on stocks[i].  An item that is no object makes
\* calculate_features raise AttributeError, and the except clause's own
\* stock.get raises it again: that one leaves the loop for the outer except.
BatchStep(m, sc, names, b) ==
    LET stock == b.body.stocks[b.i]
        s == Score(m, sc, names, stock)
    IN  IF ~stock.obj
        THEN BatchDone(b, HttpServerError, "Batch prediction error")
        ELSE [b EXCEPT !.i = b.i + 1,
                       !.results = Append(b.results,
                           IF s.raised THEN ErrorEntry(stock)
                           ELSE ScoreEntry(stock, s))]

\* return jsonify({'results': results, 'count': len(results)})
BatchExit(b) ==
    [b EXCEPT !.pc = "done", !.status = HttpOk, !.count = Len(b.results)]

\* POST /predict/batch arrives (one batch exchange is tracked at a time).
BatchStart(body) ==
    /\ batch.pc = "idle"
    /\ batch' = BatchEnter(model, scaler, body)
    /\ GlobalsKept
    /\ UNCHANGED <<disk, startup, resp, df>>

BatchItem ==
    /\ batch.pc = "loop"
    /\ batch.i <= Len(batch.body.stocks)
    /\ batch' = BatchStep(model, scaler, feature_names, batch)
    /\ GlobalsKept
    /\ UNCHANGED <<disk, startup, resp, df>>

BatchReturn ==
    /\ batch.pc = "loop"
    /\ batch.i > Len(batch.body.stocks)
    /\ batch' = BatchExit(batch)
    /\ GlobalsKept
    /\ UNCHANGED <<disk, startup, resp, df>>

\* The batch response has been sent; the next batch request may arrive.
BatchClose ==
    /\ batch.pc = "done"
    /\ batch' = NoBatch
    /\ GlobalsKept
    /\ UNCHANGED <<disk, startup, resp, df>>

\* ------------------------------------------------------- request domains
Symbols == {NoSymbol, "AAPL"}

\* Objects sent to /predict: {}, {"current_price": 100}, and
\* day_change_percent null, non-numeric, and on either side of zero.
ServerObjects ==
    {EmptyObject, [EmptyObject EXCEPT !.current_price = Num(100)]}
    \cup {[EmptyObject EXCEPT !.day_change_percent = x] :
            x \in {Null, Str, Num(-MaxDcp), Num(-1), Num(1), Num(MaxDcp)}}

ServerBodies ==
    {Body(k, NonObject) : k \in BodyKinds \ {"object"}}
    \cup {Body("object", o) : o \in ServerObjects}

\* Items of a `stocks` list: objects with and without a symbol, scoring on
\* either side of a boundary or failing, and a value that is no object.
BatchItems ==
    {[EmptyObject EXCEPT !.symbol = y, !.day_change_percent = x] :
        y \in Symbols, x \in {Null, Num(-1), Num(MaxDcp)}}
    \cup {NonObject}

RECURSIVE SeqsUpTo(_, _)
SeqsUpTo(S, n) ==
    IF n = 0 THEN {<<>>}
    ELSE LET shorter == SeqsUpTo(S, n - 1)
         IN  shorter \cup {Append(q, x) : q \in shorter, x \in S}

BatchBodies ==
    {BatchBody(k, <<>>) :
        k \in {"missing_raises", "missing_none", "null", "nonobject",
               "no_stocks", "stocks_falsy", "stocks_nonlist"}}
    \cup {BatchBody("stocks_list", q) : q \in SeqsUpTo(BatchItems, MaxBatch)}

Next ==
    \/ Health
    \/ \E body \in ServerBodies : Predict(body)
    \/ \E body \in BatchBodies : BatchStart(body)
    \/ BatchItem
    \/ BatchReturn
    \/ BatchClose

Spec == Init /\ [][Next]_vars

\* ------------------------------------------------------- server properties
AllOk(d) == d.model = "ok" /\ d.scaler = "ok" /\ d.feature_names = "ok"
Served == resp.endpoint = "predict"
Scored == Served /\ resp.status = HttpOk
ScoredEntries == {i \in DOMAIN batch.results : batch.results[i].scored}

\* C1: with the artifacts loaded, a batch request whose `stocks` is a list
\* of N >= 1 items is answered 200 with N entries and count = N, entry i
\* carrying item i's symbol (or UNKNOWN), whatever the items are.
C1_BatchAnswersEveryItem ==
    (/\ batch.pc = "done"
     /\ startup.model.loaded
     /\ batch.body.kind = "stocks_list"
     /\ Len(batch.body.stocks) >= 1)
    => /\ batch.status = HttpOk
       /\ batch.count = Len(batch.body.stocks)
       /\ Len(batch.results) = Len(batch.body.stocks)
       /\ \A i \in DOMAIN batch.results :
            batch.results[i].symbol =
                (IF batch.body.stocks[i].symbol = NoSymbol THEN "UNKNOWN"
                 ELSE batch.body.stocks[i].symbol)

\* C2: loading is all-or-nothing.  The regressor is absent exactly when the
\* scaler is, and exactly when some artifact failed to load; /health then
\* reports false and every /predict and /predict/batch is answered 500
\* before its body is looked at; with all three loaded /health reports true.
C2_LoadAllOrNothing ==
    /\ model.loaded = scaler.loaded
    /\ model.loaded = AllOk(disk)
    /\ (resp.endpoint = "health" => resp.model_loaded = AllOk(disk))
    /\ ~AllOk(disk) =>
         /\ feature_names = <<>>
         /\ (Served => resp.status = HttpServerError /\ ~resp.inferred)
         /\ batch.pc # "loop"
         /\ (batch.pc = "done" => batch.status = HttpServerError)

\* Only the feature-name list failed to load, and a well-formed /predict and
\* a well-formed batch were both answered 500.
C2_Witness ==
    /\ disk = [model |-> "ok", scaler |-> "ok", feature_names |-> "fail"]
    /\ Served /\ resp.status = HttpServerError
    /\ resp.body.kind = "object" /\ ~IsEmptyObject(resp.body.data)
    /\ batch.pc = "done" /\ batch.status = HttpServerError
    /\ batch.body.kind = "stocks_list" /\ Len(batch.body.stocks) >= 1

InRange(raw, score) ==
    /\ ScoreMin * Scale <= score /\ score <= ScoreMax * Scale
    /\ (raw < ScoreMin * Scale => score = ScoreMin * Scale)
    /\ (raw > ScoreMax * Scale => score = ScoreMax * Scale)

\* C3: whatever the regressor outputs, the risk_score of a /predict
\* response and of every score entry of a batch lies in [0, 100]; an output
\* below 0 is returned as 0, one above 100 as 100.
C3_ScoreInRange ==
    /\ (Scored => InRange(resp.raw, resp.risk_score))
    /\ \A i \in ScoredEntries :
         InRange(batch.results[i].raw, batch.results[i].risk_score)

\* A /predict answered from an output below 0 while a batch holds one score
\* entry from an output below 0 and one from an output above 100.
C3_Witness ==
    /\ Scored /\ resp.raw < ScoreMin * Scale /\ resp.risk_score = ScoreMin * Scale
    /\ \E i \in ScoredEntries : batch.results[i].raw < ScoreMin * Scale
    /\ \E i \in ScoredEntries :
         /\ batch.results[i].raw > ScoreMax * Scale
         /\ batch.results[i].risk_score = ScoreMax * Scale

\* The documented thresholds, applied to a score in thousandths.
Bucket(score) ==
    IF score < LowBelow * Scale THEN "Low"
    ELSE IF score < MediumBelow * Scale THEN "Medium"
    ELSE "High"

\* C4: the risk_level of a /predict response and of every score entry of a
\* batch is the bucket of the risk_score returned with it.
C4_LevelIsBucketOfReturnedScore ==
    /\ (Scored => resp.risk_level = Bucket(resp.risk_score))
    /\ \A i \in ScoredEntries :
         batch.results[i].risk_level = Bucket(batch.results[i].risk_score)

\* C5: with the artifacts loaded, /predict with a missing or empty body and
\* /predict/batch with `stocks` missing or empty are answered 400, and no
\* inference runs.
C5_InvalidInputIs400 ==
    /\ (/\ startup.model.loaded
        /\ Served
        /\ \/ resp.body.kind \in {"missing_raises", "missing_none"}
           \/ resp.body.kind = "object" /\ IsEmptyObject(resp.body.data))
       => resp.status = HttpBadRequest /\ ~resp.inferred
    /\ (/\ startup.model.loaded
        /\ batch.pc = "done"
        /\ \/ batch.body.kind = "no_stocks"
           \/ batch.body.kind = "stocks_list" /\ batch.body.stocks = <<>>)
       => batch.status = HttpBadRequest /\ batch.results = <<>>

\* predict_batch() run from arrival to response against a given triple.
RECURSIVE RunLoop(_, _, _, _)
RunLoop(m, sc, names, b) ==
    IF b.pc # "loop" THEN b
    ELSE IF b.i > Len(b.body.stocks) THEN BatchExit(b)
    ELSE RunLoop(m, sc, names, BatchStep(m, sc, names, b))

BatchOutcome(st, body) ==
    RunLoop(st.model, st.scaler, st.feature_names,
            BatchEnter(st.model, st.scaler, body))

\* C9: no request changes the loaded triple, and every response is the one
\* its request gets from the triple as the import left it, whatever was
\* served before it or between the items of a batch.
C9_TripleReadOnly ==
    /\ model = startup.model
    /\ scaler = startup.scaler
    /\ feature_names = startup.feature_names
    /\ (resp.endpoint = "health" => resp = HealthResponse(startup.model))
    /\ (Served =>
          resp = PredictResponse(startup.model, startup.scaler,
                                 startup.feature_names, resp.body))
    /\ (batch.pc = "done" => batch = BatchOutcome(startup, batch.body))

\* A batch of two items was answered in full around a /predict that scored.
C9_Witness ==
    /\ Scored
    /\ batch.pc = "done" /\ batch.status = HttpOk /\ batch.count >= 2
    /\ \E i \in DOMAIN batch.results : ~batch.results[i].scored

\* ------------------------------------------------ single-prediction model
\* One POST /predict on a server whose artifacts loaded, the body drawn
\* from every combination of field kinds and of values in -MaxNum..MaxNum,
\* with and without a symbol, and the body {"current_price": 100}.
FieldValues == {Absent, Null, Str} \cup {Num(n) : n \in -MaxNum..MaxNum}

Snapshots ==
    [obj : {TRUE}, symbol : Symbols, day_change_percent : FieldValues,
     volume : FieldValues, market_cap : FieldValues,
     current_price : FieldValues, previous_close : FieldValues]

Pending(body) == [NoResp EXCEPT !.endpoint = "pending", !.body = body]

MinimalBody == Body("object", [EmptyObject EXCEPT !.current_price = Num(100)])

PredictBodies == {Body("object", o) : o \in Snapshots} \cup {MinimalBody}

InitPredict ==
    /\ disk = [model |-> "ok", scaler |-> "ok", feature_names |-> "ok"]
    /\ model = [loaded |-> TRUE, bias |-> LowBelow * Scale, slope |-> 1]
    /\ scaler = [loaded |-> TRUE, n_features_in |-> Len(feature_columns)]
    /\ feature_names = feature_columns
    /\ startup = [model |-> model, scaler |-> scaler,
                  feature_names |-> feature_names]
    /\ \E body \in PredictBodies : resp = Pending(body)
    /\ batch = NoBatch
    /\ df = NoTable

\* The pending request is served.
PredictPending ==
    /\ resp.endpoint = "pending"
    /\ Predict(resp.body)

NextPredict == PredictPending

SpecPredict == InitPredict /\ [][NextPredict]_vars

\* -------------------------------------------- feature-derivation properties
RawFields == {"day_change_percent", "volume", "market_cap", "current_price",
              "previous_close"}
FeatureNames == {"day_change_percent", "volume", "market_cap",
                 "current_price", "price_volatility", "volume_ratio",
                 "price_change_ratio"}
NumericOrAbsent(o) == \A f \in RawFields : o[f].k \in {"absent", "num"}
Complete(cf) == ~cf.raised /\ DOMAIN cf.features = FeatureNames

C7_RatioZeroWithoutPreviousClose ==
    (Served /\ resp.body.data.previous_close = Absent) =>
        /\ (resp.cf.called /\ ~resp.cf.raised) =>
               resp.cf.features.price_change_ratio.n = 0
        /\ (NumericOrAbsent(resp.body.data) /\ ~IsEmptyObject(resp.body.data)) =>
               /\ resp.status = HttpOk
               /\ resp.features_used.price_change_ratio.n = 0
        /\ resp.body = MinimalBody =>
               /\ resp.status = HttpOk
               /\ resp.features_used.current_price = Rat(100)
               /\ resp.features_used.price_change_ratio = Frac(0, 100)

\* {"current_price": 100} was answered 200 with the ratio 0 / 100.
C7_Witness ==
    /\ Served /\ resp.body = MinimalBody /\ resp.status = HttpOk
    /\ resp.features_used.price_change_ratio = Frac(0, 100)

FlooredFields == {"volume", "market_cap", "current_price"}

\* C8: the derived volume, market_cap and current_price are strictly
\* positive: an absent field or a value <= 0 gives exactly 1, a value > 0
\* is passed through unchanged.
C8_FlooredFieldsPositive ==
    (Served /\ resp.cf.called /\ ~resp.cf.raised) =>
        \A f \in FlooredFields :
            LET raw == resp.body.data[f]
                out == resp.cf.features[f]
            IN  /\ out.d = 1 /\ out.n > 0
                /\ (raw.k = "absent" \/ raw.v <= 0) => out.n = FloorValue
                /\ (raw.k = "num" /\ raw.v > 0) => out.n = raw.v

\* A negative volume and a zero market_cap came out as 1 beside a
\* current_price of 2 that passed through.
C8_Witness ==
    /\ Served /\ resp.cf.called /\ ~resp.cf.raised
    /\ resp.body.data.volume = Num(-1) /\ resp.cf.features.volume = Rat(1)
    /\ resp.body.data.market_cap = Num(0) /\ resp.cf.features.market_cap = Rat(1)
    /\ resp.body.data.current_price = Num(2)
    /\ resp.cf.features.current_price = Rat(2)

\* ---------------------------------------------------------------- trainer
\* A row of the synthetic table: day_change_percent is a normal draw (either
\* sign), the other four are lognormal draws (positive).
RawRows ==
    [day_change_percent : {-1, 1}, volume : 1..MaxVol, market_cap : {1, 2},
     current_price : {1, 2}, previous_close : {1, 2}]

RECURSIVE SeqsOfLen(_, _)
SeqsOfLen(S, n) ==
    IF n = 0 THEN {<<>>}
    ELSE {Append(q, x) : q \in SeqsOfLen(S, n - 1), x \in S}

RECURSIVE SumVolume(_)
SumVolume(rows) ==
    IF rows = <<>> THEN 0
    ELSE rows[1].volume + SumVolume(Tail(rows))

SetMax(S) == CHOOSE x \in S : \A y \in S : y <= x
SetMin(S) == CHOOSE x \in S : \A y \in S : x <= y

\* Mutant of DerivedColumns: the price change is taken relative to the
\* current price instead of the previous close.
DerivedColumnsDrift(row, rows) ==
    [price_volatility |-> Rat(Abs(row.day_change_percent)),
     volume_ratio |-> Frac(row.volume * Len(rows), SumVolume(rows)),
     price_change_ratio |->
         Frac(Abs(row.current_price - row.previous_close), row.current_price)]

\* df['price_volatility'], df['volume_ratio'], df['price_change_ratio']
DerivedColumns(row, rows) ==
    [price_volatility |-> Rat(Abs(row.day_change_percent)),
     volume_ratio |-> Frac(row.volume * Len(rows), SumVolume(rows)),
     price_change_ratio |->
         Frac(Abs(row.current_price - row.previous_close), row.previous_close)]

\* The unnormalised label of a row, in thousandths (quotients floored):
\* volatility * 10 + 30 / (market_cap / max) + ratio * 100 * 20
\* + 20 / (volume_ratio + 0.1).
RawRisk(row, rows) ==
    LET capMax == SetMax({rows[i].market_cap : i \in 1..Len(rows)})
    IN  Abs(row.day_change_percent) * 10 * Scale
        + (30 * Scale * capMax) \div row.market_cap
        + (100 * 20 * Scale * Abs(row.current_price - row.previous_close))
              \div row.previous_close
        + (20 * Scale * 10 * SumVolume(rows))
              \div (10 * row.volume * Len(rows) + SumVolume(rows))

\* Min-max normalisation to 0..100 (whole points, floored); 0/0 is NaN.
NormalisedRisk(row, rows) ==
    LET all == {RawRisk(rows[i], rows) : i \in 1..Len(rows)}
        lo == SetMin(all)
        hi == SetMax(all)
    IN  IF hi = lo THEN [nan |-> TRUE, v |-> 0]
        ELSE [nan |-> FALSE,
              v |-> ((RawRisk(row, rows) - lo) * 100) \div (hi - lo)]

\* generate_synthetic_training_data after the draws: the three derived
\* columns and the label column are added to every row.
GenerateTable(rows) ==
    [i \in 1..Len(rows) |->
        [raw |-> rows[i], derived |-> DerivedColumns(rows[i], rows),
         risk_score |-> NormalisedRisk(rows[i], rows)]]

\* What the server derives at inference for the same raw row.
ServerFeatures(row) ==
    calculate_features(
        [obj |-> TRUE, symbol |-> NoSymbol,
         day_change_percent |-> Num(row.day_change_percent),
         volume |-> Num(row.volume), market_cap |-> Num(row.market_cap),
         current_price |-> Num(row.current_price),
         previous_close |-> Num(row.previous_close)]).features

InitTrain ==
    /\ disk = [model |-> "fail", scaler |-> "fail", feature_names |-> "fail"]
    /\ model = NoModel
    /\ scaler = NoScaler
    /\ feature_names = <<>>
    /\ startup = [model |-> model, scaler |-> scaler,
                  feature_names |-> feature_names]
    /\ resp = NoResp
    /\ batch = NoBatch
    /\ \E n \in 1..MaxRows :
         \E rows \in SeqsOfLen(RawRows, n) : df = [pc |-> "drawn", rows |-> rows]

GenerateDerived ==
    /\ df.pc = "drawn"
    /\ df' = [pc |-> "derived", rows |-> GenerateTable(df.rows)]
    /\ UNCHANGED <<disk, model, scaler, feature_names, startup, resp, batch>>

NextTrain == GenerateDerived

\* --------------------------------------------------- trainer properties
Derived == df.pc = "derived"
RawTable == [i \in DOMAIN df.rows |-> df.rows[i].raw]

\* C10 as claimed: the three derived features the trainer puts in a row
\* equal those the server derives for the same row.
C10_SameThreeFeatures ==
    Derived =>
        \A i \in DOMAIN df.rows :
            LET t == df.rows[i].derived
                s == ServerFeatures(df.rows[i].raw)
            IN  /\ RatEq(t.price_volatility, s.price_volatility)
                /\ RatEq(t.volume_ratio, s.volume_ratio)
                /\ RatEq(t.price_change_ratio, s.price_change_ratio)

\* C10 as amended: price_volatility and price_change_ratio agree; the
\* server's volume_ratio is the constant 1 while the trainer's is
\* volume / mean(volume), so they agree exactly on the rows whose volume
\* is the table's mean.
C10_TwoOfThreeFeatures ==
    Derived =>
        \A i \in DOMAIN df.rows :
            LET t == df.rows[i].derived
                s == ServerFeatures(df.rows[i].raw)
            IN  /\ RatEq(t.price_volatility, s.price_volatility)
                /\ RatEq(t.price_change_ratio, s.price_change_ratio)
                /\ s.volume_ratio = Rat(1)
                /\ RatEq(t.volume_ratio, s.volume_ratio)
                     <=> (df.rows[i].raw.volume * Len(df.rows)
                            = SumVolume(RawTable))

\* A derived table with a row whose volume_ratio is not 1 and whose price
\* moved.
C10_Witness ==
    /\ Derived
    /\ \E i \in DOMAIN df.rows :
         /\ ~RatEq(df.rows[i].derived.volume_ratio, Rat(1))
         /\ df.rows[i].derived.price_change_ratio.n > 0
         /\ df.rows[i].derived.price_volatility.n > 0

SpecTrain == InitTrain /\ [][NextTrain]_vars
====
